---- MODULE Spec2Model ----
(***************************************************************************)
(* Model of the pixel-painting component tree                              *)
(*                                                                         *)
(*     Matrix --+-- ColorSelector   (nine swatches)                        *)
(*              +-- Cell x (rows*cols)                                     *)
(*                                                                         *)
(* Matrix owns state.selectedColor.  A swatch click calls                  *)
(* Matrix.setSelectedColor, whose setState re-renders Matrix and hands     *)
(* every Cell fresh props.  A Cell click runs Cell.handleClick, whose      *)
(* setState re-renders that Cell only.  Two versions of Cell are in the    *)
(* repository: src/src/Cell.js reads this.props.selectedColor, the other   *)
(* (src/unnamed/part_001) calls this.props.getSelectedColor().             *)
(***************************************************************************)
EXTENDS Integers, Sequences, FiniteSets, TLC

(***************************************************************************)
(* Bounds of the model                                                     *)
(***************************************************************************)
NumRows == 2
NumCols == 2
MaxEvents == 3
MaxMutations == 1
MaxQueuedClicks == 2

Rows == 0 .. (NumRows - 1)
Cols == 0 .. (NumCols - 1)

(***************************************************************************)
(* Program constants                                                       *)
(***************************************************************************)
\* The palette literal of ColorSelector.makeColorSwatches.
Palette == << "#F00", "#F80", "#FF0", "#0F0", "#00F", "#508", "#90D", "#FFF", "#000" >>

SwatchIdx == 0 .. (Len(Palette) - 1)

\* Matrix's constructor default for state.selectedColor.
DefaultColor == "#FFF"

\* Colour tokens of the shipped data set, used to fill the input grid so
\* that neighbouring positions hold different tokens.
DataTokens == << "#ffffff", "#777777", "#d5d5d5", "#989898", "#b7b7b7", "#7b7b7b", "#797979" >>

\* The values prop handed to Matrix: a rows x cols array of tokens.
learnSymbol ==
  [r \in Rows |-> [c \in Cols |-> DataTokens[((r * NumCols + c) % Len(DataTokens)) + 1]]]

\* The array data.js exports, as shipped: the values index.js passes to
\* Matrix.  Entry learnSymbolData[r][c] is row r, column c, counted from 1.
learnSymbolData ==
  <<
    <<
       "#FFF", "#FFF", "#FFF", "#FFF", "#FFF", "#FFF", "#FFF", "#FFF",
       "#FFF", "#FFF", "#ffffff", "#ffffff", "#ffffff", "#ffffff", "#ffffff", "#ffffff",
       "#ffffff", "#ffffff", "#ffffff", "#ffffff", "#ffffff", "#ffffff", "#ffffff", "#ffffff",
       "#ffffff", "#ffffff", "#ffffff", "#ffffff", "#ffffff", "#ffffff", "#ffffff", "#ffffff",
       "#ffffff", "#ffffff", "#ffffff", "#FFF", "#FFF", "#FFF", "#FFF", "#FFF",
       "#FFF", "#FFF", "#FFF", "#FFF", "#FFF", "#FFF"
    >>,
    <<
       "#FFF", "#FFF", "#FFF", "#FFF", "#FFF", "#FFF", "#FFF", "#FFF",
       "#FFF", "#FFF", "#ffffff", "#ffffff", "#ffffff", "#ffffff", "#ffffff", "#ffffff",
       "#ffffff", "#ffffff", "#ffffff", "#ffffff", "#ffffff", "#ffffff", "#969696", "#f1f1f1",
       "#ffffff", "#ffffff", "#ffffff", "#ffffff", "#ffffff", "#ffffff", "#ffffff", "#ffffff",
       "#ffffff", "#ffffff", "#ffffff", "#FFF", "#FFF", "#FFF", "#FFF", "#FFF",
       "#FFF", "#FFF", "#FFF", "#FFF", "#FFF", "#FFF"
    >>,
    <<
       "#FFF", "#FFF", "#FFF", "#FFF", "#FFF", "#FFF", "#FFF", "#FFF",
       "#FFF", "#FFF", "#ffffff", "#ffffff", "#ffffff", "#ffffff", "#ffffff", "#ffffff",
       "#ffffff", "#ffffff", "#ffffff", "#ffffff", "#ffffff", "#b5b5b5", "#7a7a7a", "#d4d4d4",
       "#ffffff", "#ffffff", "#ffffff", "#ffffff", "#ffffff", "#ffffff", "#ffffff", "#ffffff",
       "#ffffff", "#ffffff", "#ffffff", "#FFF", "#FFF", "#FFF", "#FFF", "#FFF",
       "#FFF", "#FFF", "#FFF", "#FFF", "#FFF", "#FFF"
    >>,
    <<
       "#FFF", "#FFF", "#FFF", "#FFF", "#FFF", "#FFF", "#FFF", "#FFF",
       "#FFF", "#FFF", "#ffffff", "#ffffff", "#ffffff", "#ffffff", "#ffffff", "#ffffff",
       "#ffffff", "#ffffff", "#ffffff", "#ffffff", "#e9e9e9", "#737373", "#797979", "#d5d5d5",
       "#ffffff", "#ffffff", "#ffffff", "#ffffff", "#ffffff", "#ffffff", "#ffffff", "#ffffff",
       "#ffffff", "#ffffff", "#ffffff", "#FFF", "#FFF", "#FFF", "#FFF", "#FFF",
       "#FFF", "#FFF", "#FFF", "#FFF", "#FFF", "#FFF"
    >>,
    <<
       "#FFF", "#FFF", "#FFF", "#FFF", "#FFF", "#FFF", "#FFF", "#FFF",
       "#FFF", "#FFF", "#ffffff", "#ffffff", "#ffffff", "#ffffff", "#ffffff", "#ffffff",
       "#ffffff", "#ffffff", "#ffffff", "#ffffff", "#848484", "#ababab", "#7b7b7b", "#d5d5d5",
       "#ffffff", "#ffffff", "#ffffff", "#ffffff", "#ffffff", "#ffffff", "#ffffff", "#ffffff",
       "#ffffff", "#ffffff", "#ffffff", "#FFF", "#FFF", "#FFF", "#FFF", "#FFF",
       "#FFF", "#FFF", "#FFF", "#FFF", "#FFF", "#FFF"
    >>,
    <<
       "#FFF", "#FFF", "#FFF", "#FFF", "#FFF", "#FFF", "#FFF", "#FFF",
       "#FFF", "#FFF", "#ffffff", "#ffffff", "#ffffff", "#ffffff", "#ffffff", "#ffffff",
       "#ffffff", "#ffffff", "#ffffff", "#b3b3b3", "#7c7c7c", "#ffffff", "#777777", "#d5d5d5",
       "#ffffff", "#ffffff", "#ffffff", "#ffffff", "#ffffff", "#ffffff", "#ffffff", "#ffffff",
       "#ffffff", "#ffffff", "#ffffff", "#FFF", "#FFF", "#FFF", "#FFF", "#FFF",
       "#FFF", "#FFF", "#FFF", "#FFF", "#FFF", "#FFF"
    >>,
    <<
       "#FFF", "#FFF", "#FFF", "#FFF", "#FFF", "#FFF", "#FFF", "#FFF",
       "#FFF", "#FFF", "#ffffff", "#ffffff", "#ffffff", "#ffffff", "#ffffff", "#ffffff",
       "#ffffff", "#ffffff", "#e9e9e9", "#6f6f6f", "#dbdbdb", "#ffffff", "#777777", "#d5d5d5",
       "#ffffff", "#ffffff", "#ffffff", "#ffffff", "#ffffff", "#ffffff", "#ffffff", "#ffffff",
       "#ffffff", "#ffffff", "#ffffff", "#FFF", "#FFF", "#FFF", "#FFF", "#FFF",
       "#FFF", "#FFF", "#FFF", "#FFF", "#FFF", "#FFF"
    >>,
    <<
       "#FFF", "#FFF", "#FFF", "#FFF", "#FFF", "#FFF", "#FFF", "#FFF",
       "#FFF", "#FFF", "#ffffff", "#ffffff", "#ffffff", "#ffffff", "#ffffff", "#ffffff",
       "#ffffff", "#ffffff", "#848484", "#a4a4a4", "#ffffff", "#ffffff", "#777777", "#d5d5d5",
       "#ffffff", "#ffffff", "#ffffff", "#ffffff", "#ffffff", "#ffffff", "#ffffff", "#ffffff",
       "#ffffff", "#ffffff", "#ffffff", "#FFF", "#FFF", "#FFF", "#FFF", "#FFF",
       "#FFF", "#FFF", "#FFF", "#FFF", "#FFF", "#FFF"
    >>,
    <<
       "#FFF", "#FFF", "#FFF", "#FFF", "#FFF", "#FFF", "#FFF", "#FFF",
       "#FFF", "#FFF", "#ffffff", "#ffffff", "#ffffff", "#ffffff", "#ffffff", "#ffffff",
       "#ffffff", "#b1b1b1", "#7f7f7f", "#fdfdfd", "#ffffff", "#ffffff", "#777777", "#d5d5d5",
       "#ffffff", "#ffffff", "#ffffff", "#ffffff", "#ffffff", "#ffffff", "#ffffff", "#ffffff",
       "#ffffff", "#ffffff", "#ffffff", "#FFF", "#FFF", "#FFF", "#FFF", "#FFF",
       "#FFF", "#FFF", "#FFF", "#FFF", "#FFF", "#FFF"
    >>,
    <<
       "#FFF", "#FFF", "#FFF", "#FFF", "#FFF", "#FFF", "#FFF", "#FFF",
       "#FFF", "#FFF", "#ffffff", "#ffffff", "#ffffff", "#ffffff", "#ffffff", "#ffffff",
       "#e7e7e7", "#717171", "#dbdbdb", "#ffffff", "#ffffff", "#ffffff", "#777777", "#d5d5d5",
       "#ffffff", "#ffffff", "#ffffff", "#ffffff", "#ffffff", "#ffffff", "#ffffff", "#ffffff",
       "#ffffff", "#ffffff", "#ffffff", "#FFF", "#FFF", "#FFF", "#FFF", "#FFF",
       "#FFF", "#FFF", "#FFF", "#FFF", "#FFF", "#FFF"
    >>,
    <<
       "#FFF", "#FFF", "#FFF", "#FFF", "#FFF", "#FFF", "#FFF", "#FFF",
       "#FFF", "#FFF", "#ffffff", "#ffffff", "#ffffff", "#ffffff", "#ffffff", "#ffffff",
       "#848484", "#a3a3a3", "#ffffff", "#ffffff", "#ffffff", "#ffffff", "#777777", "#d5d5d5",
       "#ffffff", "#ffffff", "#ffffff", "#ffffff", "#ffffff", "#ffffff", "#ffffff", "#ffffff",
       "#ffffff", "#ffffff", "#ffffff", "#FFF", "#FFF", "#FFF", "#FFF", "#FFF",
       "#FFF", "#FFF", "#FFF", "#FFF", "#FFF", "#FFF"
    >>,
    <<
       "#FFF", "#FFF", "#FFF", "#FFF", "#FFF", "#FFF", "#FFF", "#FFF",
       "#FFF", "#FFF", "#ffffff", "#ffffff", "#ffffff", "#ffffff", "#ffffff", "#b1b1b1",
       "#797979", "#b0b0b0", "#b7b7b7", "#b7b7b7", "#b7b7b7", "#bbbbbb", "#7a7a7a", "#a4a4a4",
       "#b7b7b7", "#b7b7b7", "#b7b7b7", "#b7b7b7", "#b7b7b7", "#b9b9b9", "#ffffff", "#ffffff",
       "#ffffff", "#ffffff", "#ffffff", "#FFF", "#FFF", "#FFF", "#FFF", "#FFF",
       "#FFF", "#FFF", "#FFF", "#FFF", "#FFF", "#FFF"
    >>,
    <<
       "#FFF", "#FFF", "#FFF", "#FFF", "#FFF", "#FFF", "#FFF", "#FFF",
       "#FFF", "#FFF", "#ffffff", "#ffffff", "#ffffff", "#ffffff", "#ffffff", "#aeaeae",
       "#979797", "#989898", "#989898", "#989898", "#989898", "#999999", "#7b7b7b", "#8e8e8e",
       "#979797", "#989898", "#989898", "#989898", "#868686", "#797979", "#ffffff", "#ffffff",
       "#ffffff", "#ffffff", "#ffffff", "#FFF", "#FFF", "#FFF", "#FFF", "#FFF",
       "#FFF", "#FFF", "#FFF", "#FFF", "#FFF", "#FFF"
    >>,
    <<
       "#FFF", "#FFF", "#FFF", "#FFF", "#FFF", "#FFF", "#FFF", "#FFF",
       "#FFF", "#FFF", "#ffffff", "#ffffff", "#ffffff", "#ffffff", "#ffffff", "#ffffff",
       "#ffffff", "#ffffff", "#ffffff", "#ffffff", "#ffffff", "#ffffff", "#777777", "#d9d9d9",
       "#ffffff", "#ffffff", "#ffffff", "#fafafa", "#797979", "#c9c9c9", "#ffffff", "#ffffff",
       "#ffffff", "#ffffff", "#ffffff", "#FFF", "#FFF", "#FFF", "#FFF", "#FFF",
       "#FFF", "#FFF", "#FFF", "#FFF", "#FFF", "#FFF"
    >>,
    <<
       "#FFF", "#FFF", "#FFF", "#FFF", "#FFF", "#FFF", "#FFF", "#FFF",
       "#FFF", "#FFF", "#ffffff", "#ffffff", "#ffffff", "#ffffff", "#ffffff", "#ffffff",
       "#ffffff", "#ffffff", "#ffffff", "#ffffff", "#ffffff", "#ffffff", "#777777", "#d5d5d5",
       "#ffffff", "#ffffff", "#ffffff", "#9f9f9f", "#8e8e8e", "#ffffff", "#ffffff", "#ffffff",
       "#ffffff", "#ffffff", "#ffffff", "#FFF", "#FFF", "#FFF", "#FFF", "#FFF",
       "#FFF", "#FFF", "#FFF", "#FFF", "#FFF", "#FFF"
    >>,
    <<
       "#FFF", "#FFF", "#FFF", "#FFF", "#FFF", "#FFF", "#FFF", "#FFF",
       "#FFF", "#FFF", "#ffffff", "#ffffff", "#ffffff", "#ffffff", "#ffffff", "#ffffff",
       "#ffffff", "#ffffff", "#ffffff", "#ffffff", "#ffffff", "#ffffff", "#777777", "#d5d5d5",
       "#ffffff", "#ffffff", "#dbdbdb", "#6f6f6f", "#eeeeee", "#ffffff", "#ffffff", "#ffffff",
       "#ffffff", "#ffffff", "#ffffff", "#FFF", "#FFF", "#FFF", "#FFF", "#FFF",
       "#FFF", "#FFF", "#FFF", "#FFF", "#FFF", "#FFF"
    >>,
    <<
       "#FFF", "#FFF", "#FFF", "#FFF", "#FFF", "#FFF", "#FFF", "#FFF",
       "#FFF", "#FFF", "#ffffff", "#ffffff", "#ffffff", "#ffffff", "#ffffff", "#ffffff",
       "#ffffff", "#ffffff", "#ffffff", "#ffffff", "#ffffff", "#ffffff", "#777777", "#d5d5d5",
       "#ffffff", "#ffffff", "#818181", "#b1b1b1", "#ffffff", "#ffffff", "#ffffff", "#ffffff",
       "#ffffff", "#ffffff", "#ffffff", "#FFF", "#FFF", "#FFF", "#FFF", "#FFF",
       "#FFF", "#FFF", "#FFF", "#FFF", "#FFF", "#FFF"
    >>,
    <<
       "#FFF", "#FFF", "#FFF", "#FFF", "#FFF", "#FFF", "#FFF", "#FFF",
       "#FFF", "#FFF", "#ffffff", "#ffffff", "#ffffff", "#ffffff", "#ffffff", "#ffffff",
       "#ffffff", "#ffffff", "#ffffff", "#ffffff", "#ffffff", "#ffffff", "#777777", "#d5d5d5",
       "#ffffff", "#b5b5b5", "#7b7b7b", "#ffffff", "#ffffff", "#ffffff", "#ffffff", "#ffffff",
       "#ffffff", "#ffffff", "#ffffff", "#FFF", "#FFF", "#FFF", "#FFF", "#FFF",
       "#FFF", "#FFF", "#FFF", "#FFF", "#FFF", "#FFF"
    >>,
    <<
       "#FFF", "#FFF", "#FFF", "#FFF", "#FFF", "#FFF", "#FFF", "#FFF",
       "#FFF", "#FFF", "#ffffff", "#ffffff", "#ffffff", "#ffffff", "#ffffff", "#ffffff",
       "#ffffff", "#ffffff", "#ffffff", "#ffffff", "#ffffff", "#ffffff", "#777777", "#d5d5d5",
       "#f1f1f1", "#707070", "#d9d9d9", "#ffffff", "#ffffff", "#ffffff", "#ffffff", "#ffffff",
       "#ffffff", "#ffffff", "#ffffff", "#FFF", "#FFF", "#FFF", "#FFF", "#FFF",
       "#FFF", "#FFF", "#FFF", "#FFF", "#FFF", "#FFF"
    >>,
    <<
       "#FFF", "#FFF", "#FFF", "#FFF", "#FFF", "#FFF", "#FFF", "#FFF",
       "#FFF", "#FFF", "#ffffff", "#ffffff", "#ffffff", "#ffffff", "#ffffff", "#ffffff",
       "#ffffff", "#ffffff", "#ffffff", "#ffffff", "#ffffff", "#ffffff", "#777777", "#dcdcdc",
       "#909090", "#9a9a9a", "#ffffff", "#ffffff", "#ffffff", "#ffffff", "#ffffff", "#ffffff",
       "#ffffff", "#ffffff", "#ffffff", "#FFF", "#FFF", "#FFF", "#FFF", "#FFF",
       "#FFF", "#FFF", "#FFF", "#FFF", "#FFF", "#FFF"
    >>,
    <<
       "#FFF", "#FFF", "#FFF", "#FFF", "#FFF", "#FFF", "#FFF", "#FFF",
       "#FFF", "#FFF", "#ffffff", "#ffffff", "#ffffff", "#ffffff", "#ffffff", "#ffffff",
       "#ffffff", "#ffffff", "#ffffff", "#ffffff", "#ffffff", "#ffffff", "#787878", "#a1a1a1",
       "#747474", "#f7f7f7", "#ffffff", "#ffffff", "#ffffff", "#ffffff", "#ffffff", "#ffffff",
       "#ffffff", "#ffffff", "#ffffff", "#FFF", "#FFF", "#FFF", "#FFF", "#FFF",
       "#FFF", "#FFF", "#FFF", "#FFF", "#FFF", "#FFF"
    >>,
    <<
       "#FFF", "#FFF", "#FFF", "#FFF", "#FFF", "#FFF", "#FFF", "#FFF",
       "#FFF", "#FFF", "#ffffff", "#ffffff", "#ffffff", "#ffffff", "#ffffff", "#ffffff",
       "#ffffff", "#ffffff", "#ffffff", "#ffffff", "#ffffff", "#ffffff", "#7b7b7b", "#7b7b7b",
       "#c0c0c0", "#ffffff", "#ffffff", "#ffffff", "#ffffff", "#ffffff", "#ffffff", "#ffffff",
       "#ffffff", "#ffffff", "#ffffff", "#FFF", "#FFF", "#FFF", "#FFF", "#FFF",
       "#FFF", "#FFF", "#FFF", "#FFF", "#FFF", "#FFF"
    >>,
    <<
       "#FFF", "#FFF", "#FFF", "#FFF", "#FFF", "#FFF", "#FFF", "#FFF",
       "#FFF", "#FFF", "#ffffff", "#ffffff", "#ffffff", "#ffffff", "#ffffff", "#ffffff",
       "#ffffff", "#ffffff", "#ffffff", "#ffffff", "#ffffff", "#ffffff", "#7b7b7b", "#898989",
       "#ffffff", "#ffffff", "#ffffff", "#ffffff", "#ffffff", "#ffffff", "#ffffff", "#ffffff",
       "#ffffff", "#ffffff", "#ffffff", "#FFF", "#FFF", "#FFF", "#FFF", "#FFF",
       "#FFF", "#FFF", "#FFF", "#FFF", "#FFF", "#FFF"
    >>,
    <<
       "#FFF", "#FFF", "#FFF", "#FFF", "#FFF", "#FFF", "#FFF", "#FFF",
       "#FFF", "#FFF", "#ffffff", "#ffffff", "#ffffff", "#ffffff", "#ffffff", "#ffffff",
       "#ffffff", "#ffffff", "#ffffff", "#ffffff", "#ffffff", "#ffffff", "#898989", "#e3e3e3",
       "#ffffff", "#ffffff", "#ffffff", "#ffffff", "#ffffff", "#ffffff", "#ffffff", "#ffffff",
       "#ffffff", "#ffffff", "#ffffff", "#FFF", "#FFF", "#FFF", "#FFF", "#FFF",
       "#FFF", "#FFF", "#FFF", "#FFF", "#FFF", "#FFF"
    >>,
    <<
       "#FFF", "#FFF", "#FFF", "#FFF", "#FFF", "#FFF", "#FFF", "#FFF",
       "#FFF", "#FFF", "#ffffff", "#ffffff", "#ffffff", "#ffffff", "#ffffff", "#ffffff",
       "#ffffff", "#ffffff", "#ffffff", "#ffffff", "#ffffff", "#ffffff", "#ffffff", "#ffffff",
       "#ffffff", "#ffffff", "#ffffff", "#ffffff", "#ffffff", "#ffffff", "#ffffff", "#ffffff",
       "#ffffff", "#ffffff", "#ffffff", "#FFF", "#FFF", "#FFF", "#FFF", "#FFF",
       "#FFF", "#FFF", "#FFF", "#FFF", "#FFF", "#FFF"
    >>
  >>

\* A token an upstream writer may store into the input array later on.
UpstreamToken == "#123456"

None == "none"

VARIABLES
  impl,           \* which Cell file is built: "prop" (Cell.js) or "accessor" (part_001)
  values,         \* the array object passed as Matrix's values prop
  selectedColor,  \* Matrix.state.selectedColor
  cells,          \* cells[r][c]: the Cell instance at row r, column c
  error,          \* an exception a handler threw, None while none did
  dom,            \* dom[r][c]: the backgroundColor the Cell's div shows
  twin,           \* the Cells of the other Cell version, fed the same events
  lastEvent,      \* history: the event processed last
  prevEvent,      \* history: the event processed before lastEvent
  lastGot,        \* history: value returned by the latest getSelectedColor call
  lastSet,        \* history: argument of the latest setSelectedColor call
  setCalls,       \* history: number of setSelectedColor calls so far
  paints,         \* history: paints[r][c] = colours that Cell's clicks gave it
  ctorRuns,       \* history: ctorRuns[r][c] = number of constructor runs
  nEvents,        \* history: number of user events processed
  nMutations,     \* history: number of upstream writes to the array
  shipRow,        \* render of the shipped data: row genMatrix's map is at
  shipCol,        \* render of the shipped data: entry genRow's map is at
  shipBuilt,      \* render of the shipped data: Cell elements created so far
  queue,          \* event loop: clicks delivered by the browser, not yet handled
  pending,        \* event loop: the setState update enqueued by the running handler
  sawPending      \* history: a handler started while an update was pending

vars == << impl, values, selectedColor, cells, error, dom, twin, lastEvent, prevEvent, lastGot,
           lastSet, setCalls, paints, ctorRuns, nEvents, nMutations,
           shipRow, shipCol, shipBuilt, queue, pending, sawPending >>

\* The variables of the small-grid program and its history.
gridVars == << impl, values, selectedColor, cells, error, dom, twin, lastEvent,
               prevEvent, lastGot, lastSet, setCalls, paints, ctorRuns, nEvents,
               nMutations >>

shipVars == << shipRow, shipCol, shipBuilt >>

loopVars == << queue, pending, sawPending >>

NoPending == [kind |-> "none", r |-> 0, c |-> 0, color |-> None]

NoCell == [exists |-> FALSE, state |-> [color |-> None], updates |-> 0,
           props |-> [color |-> None, selectedColor |-> None, getSelectedColor |-> None]]

NoEvent == [kind |-> "none", r |-> 0, c |-> 0, i |-> 0]

(***************************************************************************)
(* Cell                                                                    *)
(***************************************************************************)
\* A constructor that seeds the colour from the wrong prop.
CellConstructor_SeedsSelected(props) ==
  [exists |-> TRUE, state |-> [color |-> props.selectedColor], updates |-> 0,
   props |-> props]

\* constructor(props): this.state = { color: props.color }
\* updates counts the setState calls applied to the instance.
CellConstructor(props) ==
  [exists |-> TRUE, state |-> [color |-> props.color], updates |-> 0, props |-> props]

\* A handleClick that toggles back to the input token when the Cell already
\* shows the selected colour.
handleClickProp_Toggle(cell) ==
  [cell EXCEPT !.state.color =
                 IF cell.state.color = cell.props.selectedColor
                   THEN cell.props.color ELSE cell.props.selectedColor,
               !.updates = @ + 1]

\* A handleClick that skips setState when the Cell already has the colour.
handleClickProp_Suppress(cell) ==
  IF cell.state.color = cell.props.selectedColor
    THEN cell
    ELSE [cell EXCEPT !.state.color = cell.props.selectedColor, !.updates = @ + 1]

\* A handleClick that paints with the Cell's own input token.
handleClickProp_OwnColor(cell) ==
  [cell EXCEPT !.state.color = cell.props.color, !.updates = @ + 1]

\* Cell.js: handleClick = () => this.setState({ color: this.props.selectedColor })
handleClickProp(cell) ==
  [cell EXCEPT !.state.color = cell.props.selectedColor, !.updates = @ + 1]

\* A handleClick that paints with the selection read when the Cell was built.
handleClickAccessor_AtCreation(cell, got) ==
  [cell EXCEPT !.state.color = DefaultColor, !.updates = @ + 1]

\* part_001: handleClick = () => { const newColor = this.props.getSelectedColor();
\*                                 this.setState({ color: newColor }) }
\* got is the value the accessor call returned.
handleClickAccessor(cell, got) ==
  [cell EXCEPT !.state.color = got, !.updates = @ + 1]

\* part_001, this.props.getSelectedColor(): calling a prop that is not a
\* function throws a TypeError before setState is reached.
CallThrows(cell) == cell.props.getSelectedColor # "function"

\* A setState that lands in an object shared by the whole row.
CellSetState_SharedRow(cs, r, c, newCell) ==
  [cs EXCEPT ![r] = [c2 \in Cols |-> [cs[r][c2] EXCEPT !.state = newCell.state]]]

\* this.setState(...) inside handleClick: this is the clicked instance, so
\* the update lands in that instance alone.
CellSetState(cs, r, c, newCell) == [cs EXCEPT ![r][c] = newCell]

\* A render that shows the input token instead of the state.
CellRender_InputToken(cell) == cell.props.color

\* render(): style = { backgroundColor: this.state.color }
CellRender(cell) == cell.state.color

(***************************************************************************)
(* Matrix                                                                  *)
(***************************************************************************)
\* A setter that keeps the first colour ever chosen.
setSelectedColor_FirstWins(cur, newColor) ==
  IF cur = DefaultColor THEN newColor ELSE cur

\* setSelectedColor = (newColor) => this.setState({ selectedColor: newColor })
setSelectedColor(cur, newColor) == newColor

\* The accessor Matrix hands to the accessor-calling Cell: it reads the
\* state of Matrix when it is called.
getSelectedColor(cur) == cur

\* The getSelectedColor prop Matrix hands to each Cell: the accessor above.
AccessorProp == "function"

\* Reconciliation that re-seeds the local colour from the props.
Reconcile_Reseed(old, props) == CellConstructor(props)

\* Reconciliation that leaves an existing instance with its first props.
Reconcile_StaleProps(old, props) ==
  IF old.exists THEN old ELSE CellConstructor(props)

\* A render that builds a new instance at every position every time, as
\* keys that change between renders would.
Constructs_Always(old) == TRUE

\* Whether the constructor runs at a position during a render: only where
\* no instance with that key (the index in its row) exists yet.
Constructs(old) == ~ old.exists

\* What rendering <Cell key={idx} .../> does at one position: an instance
\* already at that key keeps its state and receives the new props, otherwise
\* a new instance is constructed.
Reconcile(old, props) ==
  IF Constructs(old) THEN CellConstructor(props) ELSE [old EXCEPT !.props = props]

\* A genRow that hands each Cell the token of its right-hand neighbour.
genRow_Shifted(vals, sel, oldRow) ==
  [c \in Cols |-> Reconcile(oldRow[c], [color |-> vals[(c + 1) % NumCols],
                                        selectedColor |-> sel,
                                        getSelectedColor |-> AccessorProp])]

\* genRow = (vals) => vals.map((val, idx) =>
\*     <Cell key={idx} color={val} selectedColor={this.state.selectedColor} />)
genRow(vals, sel, oldRow) ==
  [c \in Cols |-> Reconcile(oldRow[c], [color |-> vals[c], selectedColor |-> sel,
                                        getSelectedColor |-> AccessorProp])]

\* genMatrix = () => this.props.values.map((rowVals, idx) =>
\*     <div key={idx} className="row">{this.genRow(rowVals)}</div>)
genMatrix(vals, sel, old) ==
  [r \in Rows |-> genRow(vals[r], sel, old[r])]


(***************************************************************************)
(* ColorSelector                                                           *)
(***************************************************************************)
\* A callback that closes over a variable shared by all swatches.
SwatchToken_Shared(i) == Palette[Len(Palette)]

\* makeColorSwatches: the str each swatch's callback closes over,
\*   let callback = () => this.props.setSelectedColor(str)
SwatchToken(i) == Palette[i + 1]

(***************************************************************************)
(* One click on a Cell, as a function of the program state                 *)
(***************************************************************************)
OtherImpl(build) == IF build = "prop" THEN "accessor" ELSE "prop"

\* Whether handleClick of the given Cell version throws on this instance.
Throws(build, cell) == build = "accessor" /\ CallThrows(cell)

\* The instance after handleClick of the given Cell version; sel is
\* Matrix.state.selectedColor when the handler runs.
HandleClick(build, cell, sel) ==
  IF build = "prop"
    THEN handleClickProp(cell)
    ELSE handleClickAccessor(cell, getSelectedColor(sel))

\* A click that also hands the Cell's previous colour up to Matrix.
ClickCell_Eyedropper(build, st, r, c) ==
  [st EXCEPT !.cells = CellSetState(st.cells, r, c,
                          HandleClick(build, st.cells[r][c], st.selectedColor)),
             !.selectedColor = st.cells[r][c].state.color]

\* The program state [selectedColor, cells, error] after the click handler
\* of Cell (r, c) has run and its setState has been applied.
ClickCell(build, st, r, c) ==
  IF Throws(build, st.cells[r][c])
    THEN [st EXCEPT !.error = "TypeError"]
    ELSE [st EXCEPT !.cells = CellSetState(st.cells, r, c,
                                HandleClick(build, st.cells[r][c], st.selectedColor))]

\* What the screen shows once every Cell has rendered.
RenderAll(cs) == [r \in Rows |-> [c \in Cols |-> CellRender(cs[r][c])]]

(***************************************************************************)
(* Initial state: the module is loaded, nothing is rendered yet.           *)
(***************************************************************************)
Init ==
  /\ impl \in {"prop", "accessor"}
  /\ values = learnSymbol
  /\ selectedColor = DefaultColor
  /\ cells = [r \in Rows |-> [c \in Cols |-> NoCell]]
  /\ error = None
  /\ dom = [r \in Rows |-> [c \in Cols |-> None]]
  /\ twin = [r \in Rows |-> [c \in Cols |-> NoCell]]
  /\ lastEvent = NoEvent
  /\ prevEvent = NoEvent
  /\ lastGot = None
  /\ lastSet = None
  /\ setCalls = 0
  /\ paints = [r \in Rows |-> [c \in Cols |-> << >>]]
  /\ ctorRuns = [r \in Rows |-> [c \in Cols |-> 0]]
  /\ nEvents = 0
  /\ nMutations = 0
  /\ shipRow = 1
  /\ shipCol = 1
  /\ shipBuilt = 0
  /\ queue = << >>
  /\ pending = NoPending
  /\ sawPending = FALSE

Mounted == \A r \in Rows, c \in Cols : cells[r][c].exists

\* index.js: ReactDOM.render(<Matrix values={learnSymbol} />, root)
Mount ==
  /\ ~ Mounted
  /\ cells' = genMatrix(values, selectedColor, cells)
  /\ twin' = genMatrix(values, selectedColor, twin)
  /\ dom' = RenderAll(cells')
  /\ ctorRuns' = [r \in Rows |-> [c \in Cols |->
                    ctorRuns[r][c] + (IF Constructs(cells[r][c]) THEN 1 ELSE 0)]]
  /\ lastEvent' = [NoEvent EXCEPT !.kind = "mount"]
  /\ prevEvent' = lastEvent
  /\ UNCHANGED << shipVars, loopVars >>
  /\ UNCHANGED << impl, error, values, selectedColor, lastGot, lastSet, setCalls,
                  paints, nEvents, nMutations >>

\* A click on swatch i: its callback calls setSelectedColor(str); the
\* setState re-renders Matrix, which renders every Cell again.
SwatchClick(i) ==
  /\ Mounted
  /\ nEvents < MaxEvents
  /\ selectedColor' = setSelectedColor(selectedColor, SwatchToken(i))
  /\ cells' = genMatrix(values, selectedColor', cells)
  /\ twin' = genMatrix(values, selectedColor', twin)
  /\ dom' = RenderAll(cells')
  /\ ctorRuns' = [r \in Rows |-> [c \in Cols |->
                    ctorRuns[r][c] + (IF Constructs(cells[r][c]) THEN 1 ELSE 0)]]
  /\ lastEvent' = [kind |-> "swatch", r |-> 0, c |-> 0, i |-> i]
  /\ prevEvent' = lastEvent
  /\ lastSet' = Palette[i + 1]
  /\ setCalls' = setCalls + 1
  /\ nEvents' = nEvents + 1
  /\ UNCHANGED << shipVars, loopVars >>
  /\ UNCHANGED << impl, error, values, lastGot, paints, nMutations >>

\* A click on the Cell at (r, c): handleClick of the built Cell version;
\* its setState re-renders this Cell only.
CellClick(r, c) ==
  /\ Mounted
  /\ nEvents < MaxEvents
  /\ LET threw == Throws(impl, cells[r][c])
         st == ClickCell(impl, [selectedColor |-> selectedColor, cells |-> cells,
                                error |-> error], r, c)
         tw == ClickCell(OtherImpl(impl), [selectedColor |-> selectedColor,
                                           cells |-> twin, error |-> error], r, c)
     IN /\ selectedColor' = st.selectedColor
        /\ cells' = st.cells
        /\ error' = st.error
        /\ twin' = tw.cells
        /\ dom' = IF threw THEN dom
                  ELSE [dom EXCEPT ![r][c] = CellRender(st.cells[r][c])]
        /\ lastGot' = IF impl = "accessor" /\ ~ threw
                        THEN getSelectedColor(selectedColor) ELSE lastGot
        /\ paints' = IF threw THEN paints
                     ELSE [paints EXCEPT ![r][c] = Append(@, st.cells[r][c].state.color)]
  /\ lastEvent' = [kind |-> "cell", r |-> r, c |-> c, i |-> 0]
  /\ prevEvent' = lastEvent
  /\ nEvents' = nEvents + 1
  /\ UNCHANGED << shipVars, loopVars >>
  /\ UNCHANGED << impl, values, lastSet, setCalls, ctorRuns, nMutations >>

\* An upstream writer stores a token into the input array in place.  Nothing
\* is rendered by the write itself; the next render of Matrix reads it.
MutateValues(r, c) ==
  /\ Mounted
  /\ nEvents < MaxEvents
  /\ nMutations < MaxMutations
  /\ values[r][c] # UpstreamToken
  /\ values' = [values EXCEPT ![r][c] = UpstreamToken]
  /\ lastEvent' = [kind |-> "mutate", r |-> r, c |-> c, i |-> 0]
  /\ prevEvent' = lastEvent
  /\ nEvents' = nEvents + 1
  /\ nMutations' = nMutations + 1
  /\ UNCHANGED << shipVars, loopVars >>
  /\ UNCHANGED << impl, error, dom, twin, selectedColor, cells, lastGot, lastSet,
                  setCalls, paints, ctorRuns >>

Next ==
  \/ Mount
  \/ \E i \in SwatchIdx : SwatchClick(i)
  \/ \E r \in Rows, c \in Cols : CellClick(r, c)

Spec == Init /\ [][Next]_vars

\* The program with an upstream writer of the input array.
NextUpstream ==
  \/ Next
  \/ \E r \in Rows, c \in Cols : MutateValues(r, c)

SpecUpstream == Init /\ [][NextUpstream]_vars

(***************************************************************************)
(* The same program with the event loop spelled out: the browser queues    *)
(* clicks at any moment; a handler runs on the head of the queue and       *)
(* enqueues its setState update; the update is applied and rendered when   *)
(* the handler returns, before the loop takes the next click.              *)
(***************************************************************************)
\* A loop that starts the next handler although an update is still pending.
CanDispatch_Anytime(p) == TRUE

\* Run to completion: the loop takes the next click only when the previous
\* handler has returned and its update has been applied.
CanDispatch(p) == p.kind = "none"

ClickEvents ==
  { [kind |-> "swatch", r |-> 0, c |-> 0, i |-> i] : i \in SwatchIdx }
    \cup { [kind |-> "cell", r |-> r, c |-> c, i |-> 0] : r \in Rows, c \in Cols }

\* Clicks queued, being handled, or handled.
ClicksTaken == nEvents + Len(queue) + (IF pending.kind = "none" THEN 0 ELSE 1)

\* The user clicks a swatch or a Cell; the browser queues the event.
QueueClick(e) ==
  /\ Mounted
  /\ ClicksTaken < MaxQueuedClicks
  /\ ClicksTaken < MaxEvents
  /\ queue' = Append(queue, e)
  /\ UNCHANGED << pending, sawPending >>
  /\ UNCHANGED << gridVars, shipVars >>

\* The handler of the click at the head of the queue runs up to its
\* setState call: a swatch callback passes its token to setSelectedColor, a
\* Cell's handleClick reads the selection; the update is enqueued.
Dispatch ==
  /\ queue # << >>
  /\ CanDispatch(pending)
  /\ LET e == Head(queue) IN
       /\ queue' = Tail(queue)
       /\ sawPending' = (sawPending \/ pending.kind # "none")
       /\ lastEvent' = e
       /\ prevEvent' = lastEvent
       /\ IF e.kind = "swatch"
            THEN /\ pending' = [kind |-> "matrix", r |-> 0, c |-> 0,
                                color |-> setSelectedColor(selectedColor, SwatchToken(e.i))]
                 /\ lastSet' = Palette[e.i + 1]
                 /\ setCalls' = setCalls + 1
                 /\ UNCHANGED lastGot
            ELSE /\ pending' = [kind |-> "cell", r |-> e.r, c |-> e.c,
                                color |-> HandleClick(impl, cells[e.r][e.c],
                                                      selectedColor).state.color]
                 /\ lastGot' = IF impl = "accessor"
                                 THEN getSelectedColor(selectedColor) ELSE lastGot
                 /\ UNCHANGED << lastSet, setCalls >>
  /\ UNCHANGED << impl, values, selectedColor, cells, error, dom, twin, paints,
                  ctorRuns, nEvents, nMutations >>
  /\ UNCHANGED shipVars

\* The handler has returned: the enqueued update is applied and rendered.
Flush ==
  /\ pending.kind # "none"
  /\ IF pending.kind = "matrix"
       THEN /\ selectedColor' = pending.color
            /\ cells' = genMatrix(values, selectedColor', cells)
            /\ twin' = genMatrix(values, selectedColor', twin)
            /\ dom' = RenderAll(cells')
            /\ UNCHANGED paints
       ELSE /\ cells' = CellSetState(cells, pending.r, pending.c,
                           [cells[pending.r][pending.c] EXCEPT
                              !.state.color = pending.color, !.updates = @ + 1])
            /\ twin' = CellSetState(twin, pending.r, pending.c,
                          [twin[pending.r][pending.c] EXCEPT
                             !.state.color = pending.color, !.updates = @ + 1])
            /\ dom' = [dom EXCEPT ![pending.r][pending.c] =
                                    CellRender(cells'[pending.r][pending.c])]
            /\ paints' = [paints EXCEPT ![pending.r][pending.c] = Append(@, pending.color)]
            /\ UNCHANGED selectedColor
  /\ pending' = NoPending
  /\ nEvents' = nEvents + 1
  /\ UNCHANGED << impl, values, error, lastEvent, prevEvent, lastGot, lastSet,
                  setCalls, ctorRuns, nMutations, queue, sawPending >>
  /\ UNCHANGED shipVars

NextLoop ==
  \/ Mount
  \/ \E e \in ClickEvents : QueueClick(e)
  \/ Dispatch
  \/ Flush

SpecLoop == Init /\ [][NextLoop]_vars

(***************************************************************************)
(* The first render of Matrix with the shipped data, one map callback at a *)
(* time.                                                                   *)
(***************************************************************************)
ShipDone == shipRow > Len(learnSymbolData)

\* genRow's map callback: one <Cell .../> for the entry at (shipRow, shipCol).
ShipGenCell ==
  /\ ~ ShipDone
  /\ shipCol <= Len(learnSymbolData[shipRow])
  /\ shipBuilt' = shipBuilt + 1
  /\ shipCol' = shipCol + 1
  /\ UNCHANGED shipRow
  /\ UNCHANGED << gridVars, loopVars >>

\* genMatrix's map callback returns the row's div and moves to the next row.
ShipNextRow ==
  /\ ~ ShipDone
  /\ shipCol > Len(learnSymbolData[shipRow])
  /\ shipRow' = shipRow + 1
  /\ shipCol' = 1
  /\ UNCHANGED shipBuilt
  /\ UNCHANGED << gridVars, loopVars >>

NextShipped == ShipGenCell \/ ShipNextRow

SpecShipped == Init /\ [][NextShipped]_vars

(***************************************************************************)
(* Step predicates and history helpers used by the properties              *)
(***************************************************************************)
\* The step processes a click on a Cell; lastEvent' names its position.
CellStep == nEvents' = nEvents + 1 /\ lastEvent'.kind = "cell"

\* The step processes a click on a swatch; lastEvent'.i is its index.
SwatchStep == nEvents' = nEvents + 1 /\ lastEvent'.kind = "swatch"

\* The colour of the Cell at (r, c) in a grid of Cell instances.
ColorAt(cs, r, c) == cs[r][c].state.color

LastPaint(r, c) == paints[r][c][Len(paints[r][c])]

\* The token a click must paint with: the latest swatch token, or the
\* default while no swatch was clicked.
LatestSelection == IF lastSet = None THEN "#FFF" ELSE lastSet

(***************************************************************************)
(* C1  A click on Cell(r,c) while Matrix.state.selectedColor is T leaves   *)
(* that Cell with state.color = T, for every position and every token.     *)
(***************************************************************************)
C1_ClickAppliesSelection ==
  [][CellStep => ColorAt(cells', lastEvent'.r, lastEvent'.c) = selectedColor]_vars

\* The end-to-end scenario: swatch 3 ("#0F0") then Cell(1,0); Cell(1,0) is
\* "#0F0" and Cell(0,0) still shows its input token.
C1_Witness ==
  /\ lastEvent = [kind |-> "cell", r |-> 1, c |-> 0, i |-> 0]
  /\ prevEvent = [kind |-> "swatch", r |-> 0, c |-> 0, i |-> 3]
  /\ selectedColor = "#0F0"
  /\ ColorAt(cells, 1, 0) = "#0F0"
  /\ ColorAt(cells, 0, 0) = learnSymbol[0][0]

C3_PickerIsolation ==
  [][SwatchStep =>
       /\ selectedColor' = lastSet'
       /\ setCalls' = setCalls + 1
       /\ \A r \in Rows, c \in Cols : ColorAt(cells', r, c) = ColorAt(cells, r, c)]_vars

\* A swatch was clicked while a Cell was painted with another colour, and
\* the Cell kept it.
C3_Witness ==
  /\ lastEvent.kind = "swatch"
  /\ \E r \in Rows, c \in Cols :
       /\ Len(paints[r][c]) > 0
       /\ ColorAt(cells, r, c) = LastPaint(r, c)
       /\ ColorAt(cells, r, c) # selectedColor
       /\ ColorAt(cells, r, c) # learnSymbol[r][c]

(***************************************************************************)
(* C4  Initial state: right after the first render and before any click,   *)
(* the Cell at (r,c) has color = values[r][c], row-major, for every (r,c). *)
(***************************************************************************)
C4_InitialColors ==
  (Mounted /\ nEvents = 0) =>
     \A r \in Rows, c \in Cols : ColorAt(cells, r, c) = values[r][c]

\* Mounted, nothing clicked, and the grid shows tokens that differ between
\* (0,1) and (1,0), so a transposition would show.
C4_Witness ==
  /\ Mounted
  /\ nEvents = 0
  /\ ColorAt(cells, 0, 1) = learnSymbol[0][1]
  /\ ColorAt(cells, 1, 0) = learnSymbol[1][0]
  /\ learnSymbol[0][1] # learnSymbol[1][0]

(***************************************************************************)
(* C5  Per-entry closure: a click on the swatch at index i sets            *)
(* selectedColor to exactly Palette[i], whatever was clicked before.       *)
(***************************************************************************)
C5_SwatchSetsOwnToken ==
  [][SwatchStep => selectedColor' = Palette[lastEvent'.i + 1]]_vars

\* Swatch 3 clicked right after the last swatch (index 8): the selection is
\* the token of swatch 3.
C5_Witness ==
  /\ lastEvent = [kind |-> "swatch", r |-> 0, c |-> 0, i |-> 3]
  /\ prevEvent = [kind |-> "swatch", r |-> 0, c |-> 0, i |-> 8]
  /\ selectedColor = "#0F0"

(***************************************************************************)
(* C6  Idempotence: a second click on the same Cell with no other event in *)
(* between leaves the Cell's colour as the first click left it.            *)
(***************************************************************************)
C6_ClickIdempotent ==
  [][(CellStep /\ lastEvent.kind = "cell"
        /\ lastEvent'.r = lastEvent.r /\ lastEvent'.c = lastEvent.c)
       => ColorAt(cells', lastEvent.r, lastEvent.c)
            = ColorAt(cells, lastEvent.r, lastEvent.c)]_vars

\* A Cell clicked twice in a row after a colour other than its input token
\* was selected.
C6_Witness ==
  /\ lastEvent.kind = "cell"
  /\ prevEvent = lastEvent
  /\ Len(paints[lastEvent.r][lastEvent.c]) >= 2
  /\ ColorAt(cells, lastEvent.r, lastEvent.c) # learnSymbol[lastEvent.r][lastEvent.c]
  /\ ColorAt(cells, lastEvent.r, lastEvent.c) = selectedColor

(***************************************************************************)
(* C7  setSelectedColor overwrites unconditionally: selectedColor is the   *)
(* argument of the last call, and "#FFF" before any call, so a Cell        *)
(* clicked before any swatch becomes "#FFF".                               *)
(***************************************************************************)
C7_LastWriterWins ==
  /\ selectedColor = LatestSelection
  /\ setCalls = 0 =>
       \A r \in Rows, c \in Cols :
         Len(paints[r][c]) > 0 => ColorAt(cells, r, c) = "#FFF"

\* Two swatch clicks in a row with different tokens; the second one stands.
C7_Witness ==
  /\ prevEvent = [kind |-> "swatch", r |-> 0, c |-> 0, i |-> 0]
  /\ lastEvent = [kind |-> "swatch", r |-> 0, c |-> 0, i |-> 4]
  /\ selectedColor = "#00F"

C9_CellClickFrame ==
  [][CellStep =>
       /\ selectedColor' = selectedColor
       /\ \A r \in Rows, c \in Cols :
            (r # lastEvent'.r \/ c # lastEvent'.c) => cells'[r][c] = cells[r][c]]_vars

\* Cell(0,0) was clicked and changed colour while its row neighbour and the
\* selection stayed.
C9_Witness ==
  /\ lastEvent = [kind |-> "cell", r |-> 0, c |-> 0, i |-> 0]
  /\ ColorAt(cells, 0, 0) = selectedColor
  /\ ColorAt(cells, 0, 0) # learnSymbol[0][0]
  /\ ColorAt(cells, 0, 1) = learnSymbol[0][1]
  /\ ColorAt(cells, 0, 1) # selectedColor

(***************************************************************************)
(* C10  Ownership transfer: a Cell's constructor runs once, and a later    *)
(* change of the input array entry followed by a re-render does not        *)
(* overwrite the colour of a Cell that was clicked.                        *)
(***************************************************************************)
C10_OwnershipTransfer ==
  \A r \in Rows, c \in Cols :
    /\ ctorRuns[r][c] <= 1
    /\ Mounted => ctorRuns[r][c] = 1
    /\ Len(paints[r][c]) > 0 => ColorAt(cells, r, c) = LastPaint(r, c)

\* A clicked Cell whose array entry was changed upstream and whose color
\* prop carries the new entry after a re-render, while its colour stays.
C10_Witness ==
  \E r \in Rows, c \in Cols :
    /\ Len(paints[r][c]) > 0
    /\ values[r][c] = UpstreamToken
    /\ cells[r][c].props.color = UpstreamToken
    /\ ColorAt(cells, r, c) = LastPaint(r, c)
    /\ ColorAt(cells, r, c) # UpstreamToken

C12_DisplayReflectsState ==
  Mounted => \A r \in Rows, c \in Cols : dom[r][c] = cells[r][c].state.color

\* A painted Cell shows its own colour while the selection has moved on and
\* its input token is another one.
C12_Witness ==
  \E r \in Rows, c \in Cols :
    /\ Len(paints[r][c]) > 0
    /\ dom[r][c] = LastPaint(r, c)
    /\ dom[r][c] # selectedColor
    /\ dom[r][c] # cells[r][c].props.color

(***************************************************************************)
(* C13  As claimed: rendering Matrix with the shipped learnSymbol data     *)
(* creates exactly 625 Cell components, one per entry of the array.        *)
(***************************************************************************)
C13_Exactly625Cells ==
  ShipDone => shipBuilt = 625

(***************************************************************************)
(* C14  Stable cell identity: once mounted, every position keeps its Cell  *)
(* instance through every click and re-render; no constructor runs again   *)
(* and no Cell changes colour except by a click on it.                     *)
(***************************************************************************)
C14_StableIdentity ==
  [][\A r \in Rows, c \in Cols :
       cells[r][c].exists =>
         /\ cells'[r][c].exists
         /\ ctorRuns[r][c] = 1
         /\ ctorRuns'[r][c] = 1
         /\ (~ (CellStep /\ lastEvent'.r = r /\ lastEvent'.c = c))
              => ColorAt(cells', r, c) = ColorAt(cells, r, c)]_vars

\* A Cell was painted, then a swatch click re-rendered Matrix: the instance
\* is the one built at mount and still carries the paint.
C14_Witness ==
  /\ lastEvent.kind = "swatch"
  /\ prevEvent.kind = "cell"
  /\ ctorRuns[prevEvent.r][prevEvent.c] = 1
  /\ cells[prevEvent.r][prevEvent.c].updates = 1
  /\ ColorAt(cells, prevEvent.r, prevEvent.c) # learnSymbol[prevEvent.r][prevEvent.c]
  /\ ColorAt(cells, prevEvent.r, prevEvent.c) # selectedColor

PaletteSet == { Palette[k] : k \in 1 .. Len(Palette) }

(***************************************************************************)
(* C16  Run to completion: no handler starts while an update of            *)
(* selectedColor or of a Cell's colour is pending; whenever the loop is    *)
(* between handlers every update is applied and rendered (each Cell's      *)
(* selectedColor prop is Matrix's state, each div shows its Cell's colour),*)
(* and the colour a Cell handler enqueues is the token of the latest       *)
(* swatch click handled before it, for every interleaving of queued clicks.*)
(***************************************************************************)
C16_RunToCompletion ==
  /\ ~ sawPending
  /\ pending.kind = "cell" => pending.color = LatestSelection
  /\ (pending.kind = "none" /\ Mounted) =>
       /\ selectedColor = LatestSelection
       /\ \A r \in Rows, c \in Cols :
            /\ cells[r][c].props.selectedColor = selectedColor
            /\ dom[r][c] = cells[r][c].state.color

\* A swatch click and a Cell click were queued together; the swatch handler
\* ran and was applied, and the Cell handler, started with the queue
\* empty again, enqueued the swatch's token.
C16_Witness ==
  /\ queue = << >>
  /\ nEvents = 1
  /\ prevEvent = [kind |-> "swatch", r |-> 0, c |-> 0, i |-> 5]
  /\ lastEvent = [kind |-> "cell", r |-> 0, c |-> 1, i |-> 0]
  /\ pending = [kind |-> "cell", r |-> 0, c |-> 1, color |-> "#508"]
  /\ selectedColor = "#508"

(***************************************************************************)
(* C17  Value domain: selectedColor is "#FFF" or one of the nine palette   *)
(* tokens, and every Cell's colour is its own grid entry, "#FFF" or a      *)
(* palette token; never another Cell's grid entry.                         *)
(***************************************************************************)
C17_ValueDomain ==
  /\ Cardinality(PaletteSet) = 9
  /\ selectedColor \in {"#FFF"} \cup PaletteSet
  /\ \A r \in Rows, c \in Cols :
       cells[r][c].exists =>
         ColorAt(cells, r, c) \in {learnSymbol[r][c], "#FFF"} \cup PaletteSet

\* One Cell painted with the default, one with a palette token, one still
\* on its own grid entry.
C17_Witness ==
  /\ ColorAt(cells, 0, 0) = "#FFF"
  /\ paints[0][0] = << "#FFF" >>
  /\ ColorAt(cells, 0, 1) = "#F80"
  /\ ColorAt(cells, 1, 0) = learnSymbol[1][0]
  /\ selectedColor = "#F80"

(***************************************************************************)
(* C18  The prop-reading Cell and the accessor-calling Cell, rendered by a *)
(* Matrix that supplies both the prop and the accessor, have the same      *)
(* colour at every position after every sequence of clicks.                *)
(***************************************************************************)
C18_CellVersionsAgree ==
  \A r \in Rows, c \in Cols : ColorAt(cells, r, c) = ColorAt(twin, r, c)

\* Both versions painted Cell(1,0) after a swatch click that followed the
\* mount, with that swatch's token.
C18_Witness ==
  /\ lastEvent = [kind |-> "cell", r |-> 1, c |-> 0, i |-> 0]
  /\ prevEvent = [kind |-> "swatch", r |-> 0, c |-> 0, i |-> 6]
  /\ ColorAt(cells, 1, 0) = "#90D"
  /\ ColorAt(twin, 1, 0) = "#90D"
  /\ twin[1][0].updates = 1

(***************************************************************************)
(* C19  Cell clicks commute: from any reachable state, clicking two        *)
(* distinct Cells X then Y gives the same selectedColor and the same Cells *)
(* as clicking Y then X.                                                   *)
(***************************************************************************)
C19_CellClicksCommute ==
  Mounted =>
    LET st == [selectedColor |-> selectedColor, cells |-> cells, error |-> error]
    IN \A rx \in Rows, cx \in Cols, ry \in Rows, cy \in Cols :
         \* each unordered pair of distinct positions once
         (rx < ry \/ (rx = ry /\ cx < cy)) =>
           ClickCell(impl, ClickCell(impl, st, rx, cx), ry, cy)
             = ClickCell(impl, ClickCell(impl, st, ry, cy), rx, cx)

\* Two distinct Cells were clicked one after the other under a selection
\* that differs from both input tokens, and both carry it.
C19_Witness ==
  /\ prevEvent = [kind |-> "cell", r |-> 0, c |-> 0, i |-> 0]
  /\ lastEvent = [kind |-> "cell", r |-> 1, c |-> 1, i |-> 0]
  /\ selectedColor = "#508"
  /\ ColorAt(cells, 0, 0) = "#508"
  /\ ColorAt(cells, 1, 1) = "#508"

====
